---- MODULE Spec2Model ----
(***************************************************************************)
(* Verification model of the velist.dev documentation repository:         *)
(*   - scripts/deploy.sh (build, then wrangler pages deploy, under set -e) *)
(*   - the documented multi-agent workflow with client review points       *)
(*   - the storage abstraction (createStorage, LocalStorage, S3Storage)    *)
(*   - UploadService.handle                                                *)
(*   - the invoice feature (service, repository, protected API routes)     *)
(*   - the quick-start tasks feature (taskApi and its error paths)         *)
(*   - the presigned direct upload (GET /presign, uploadDirect)            *)
(*   - the documented database backup process and its retention            *)
(*   - the products list (findAll pagination, Index.svelte navigation)     *)
(*   - the write-port plugin of vite.config.ts                             *)
(*   - the site navigation of docs/.vitepress/config.ts                    *)
(* Each part has its own specification; the variables of the other parts   *)
(* stay at their initial values.                                           *)
(***************************************************************************)
EXTENDS Integers, Sequences, FiniteSets, TLC

VARIABLES
    \* ---- scripts/deploy.sh ----
    pc,             \* position of the shell in the script
    buildState,     \* "notrun" | "running" | "done"   (bun run build)
    buildExit,      \* exit status of bun run build, NoExit while unknown
    deployState,    \* "notrun" | "running" | "done"   (bunx wrangler pages deploy)
    deployExit,     \* exit status of wrangler, NoExit while unknown
    printed,        \* the set of messages echoed so far
    scriptExit,     \* exit status of the script, NoExit while it runs
    \* ---- multi-agent workflow ----
    wfAgent,        \* the agent called last, "none" before any call
    wfPhase,        \* "idle" | "working" | "review"
    wfApprovals,    \* review points the client approved in this run
    wfOutputs,      \* agents whose outputs are in workflow/outputs/
    wfDeployed,     \* TRUE once the DevOps agent has deployed this run
    \* ---- storage abstraction ----
    STORAGE_DRIVER, \* process.env.STORAGE_DRIVER
    storage,        \* the provider createStorage() returned, "none" before
    files,          \* per provider: the objects it holds, as [key, size] records
    storageCall,    \* the last StorageProvider call and its outcome per provider
    \* ---- UploadService / AssetRepository ----
    assets,         \* rows of the assets table, in insertion order
    uuidCounter,    \* number of uuidv7() values handed out
    uploadCall,     \* the last UploadService.handle call: input, steps, result
    \* ---- feature APIs (invoices, products) ----
    mounted,        \* the feature whose API the app under test mounts
    rows,           \* the rows of that feature's table, in insertion order
    rowCounter,     \* number of row ids handed out
    apiCall,        \* the last HTTP request and how it was answered
    serviceCall,    \* the last direct InvoiceService.create call and its outcome
    \* ---- presigned direct upload (GET /presign, uploadDirect) ----
    now,            \* the clock, in seconds
    presignCall,    \* the last GET /presign request and its answer
    direct,         \* the browser's uploadDirect(file) call: position and locals
    sent,           \* the requests uploadDirect has sent, with their answers
    \* ---- database backup ----
    backupConfig,   \* BACKUP_RETENTION_COUNT and BACKUP_S3_ENABLED as configured
    backupFiles,    \* storage/backups/: the backup files, named by their timestamps
    backupClock,    \* number of timestamps handed out to backup files
    backupRuns,     \* per trigger: the position of its run and the steps it took
    backupDeletes,  \* number of DELETE /backup/:filename requests served
    lastCleanup,    \* the last cleanup step: the files before and after it
    \* ---- products list: ProductRepository.findAll, GET /products, Index.svelte ----
    products,       \* the rows of the products table, in insertion order
    location,       \* window.location.search of the browser, as parameter -> value
    props,          \* the props the Index page was last rendered with
    lastNav,        \* the user's last navigation: what they did, the form values,
                    \* and for a click the page, totalPages and query string before it
    findAllCall,    \* the last direct ProductRepository.findAll call and its result
    \* ---- vite.config.ts: the write-port plugin ----
    devServer,      \* the Vite process: its position and the port it is bound to
    portsInUse,     \* the ports other processes hold
    portFile,       \* the file .vite-port: its content, or not given when missing
    viteLog,        \* the last signal the process got and what cleanup found
    \* ---- docs/.vitepress/config.ts: nav and sidebar ----
    sitePage,       \* the path of the page the reader is on, as its segments
    lastClick       \* the reader's last click: its kind, and the page and sidebar
                    \* it was made from

deployVars   == <<pc, buildState, buildExit, deployState, deployExit, printed, scriptExit>>
workflowVars == <<wfAgent, wfPhase, wfApprovals, wfOutputs, wfDeployed>>
storageVars  == <<STORAGE_DRIVER, storage, files, storageCall>>
uploadVars   == <<assets, uuidCounter, uploadCall>>
apiVars      == <<mounted, rows, rowCounter, apiCall, serviceCall>>
presignVars  == <<now, presignCall, direct, sent>>
backupVars   == <<backupConfig, backupFiles, backupClock, backupRuns, backupDeletes,
                  lastCleanup>>
productVars  == <<products, location, props, lastNav, findAllCall>>
portVars     == <<devServer, portsInUse, portFile, viteLog>>
siteVars     == <<sitePage, lastClick>>
guideVars    == <<backupVars, productVars, portVars, siteVars>>
vars == <<deployVars, workflowVars, storageVars, uploadVars, apiVars, presignVars,
          guideVars>>

\* What each part leaves alone.
exceptDeploy   == <<workflowVars, storageVars, uploadVars, apiVars, presignVars, guideVars>>
exceptWorkflow == <<deployVars, storageVars, uploadVars, apiVars, presignVars, guideVars>>
exceptStorage  == <<deployVars, workflowVars, uploadVars, apiVars, presignVars, guideVars>>
exceptUpload   == <<deployVars, workflowVars, apiVars, presignVars, guideVars>>
exceptApi      == <<deployVars, workflowVars, storageVars, uploadVars, presignVars, guideVars>>
exceptPresign  == <<deployVars, workflowVars, apiVars, guideVars>>
coreVars       == <<deployVars, workflowVars, storageVars, uploadVars, apiVars, presignVars>>
exceptBackup   == <<coreVars, productVars, portVars, siteVars>>
exceptProducts == <<coreVars, backupVars, portVars, siteVars>>
exceptPort     == <<coreVars, backupVars, productVars, siteVars>>
exceptSite     == <<coreVars, backupVars, productVars, portVars>>

----------------------------------------------------------------------------
(* scripts/deploy.sh                                                        *)

\* Largest exit status a subprocess returns in the model.
MaxExitCode == 60

ExitCodes == 0..MaxExitCode
NoExit == -1

MsgBanner    == "Deploying Velist Documentation..."
MsgBuilding  == "Building..."
MsgDeploying == "Deploying to Cloudflare Pages..."
MsgComplete  == "Deploy complete!"
MsgUrl       == "URL: https://velist.pages.dev"

\* A script without set -e: a failing command does not end it.
ErrExit_unset(status) == FALSE

\* set -e: the shell exits when a simple command returns a non-zero status.
ErrExit(status) == status # 0

\* A script that ends with "exit 1" on any failure instead.
ExitStatus_one(status) == 1

\* The shell that set -e ends exits with the status of the failed command.
ExitStatus(status) == status

InitDeploy ==
    /\ pc = "banner"
    /\ buildState = "notrun"
    /\ buildExit = NoExit
    /\ deployState = "notrun"
    /\ deployExit = NoExit
    /\ printed = {}
    /\ scriptExit = NoExit

\* echo banner lines, echo "Building...", then bun run build is started.
StartBuild ==
    /\ pc = "banner"
    /\ printed' = printed \cup {MsgBanner, MsgBuilding}
    /\ buildState' = "running"
    /\ pc' = "build"
    /\ UNCHANGED <<buildExit, deployState, deployExit, scriptExit>>
    /\ UNCHANGED exceptDeploy

\* bun run build returns with some status; under set -e a failure ends the
\* script with that status, otherwise the script echoes and starts wrangler.
BuildReturns(status) ==
    /\ pc = "build"
    /\ buildState = "running"
    /\ buildState' = "done"
    /\ buildExit' = status
    /\ IF ErrExit(status)
          THEN /\ pc' = "exited"
               /\ scriptExit' = ExitStatus(status)
               /\ UNCHANGED <<printed, deployState>>
          ELSE /\ pc' = "deploy"
               /\ printed' = printed \cup {MsgDeploying}
               /\ deployState' = "running"
               /\ UNCHANGED scriptExit
    /\ UNCHANGED deployExit
    /\ UNCHANGED exceptDeploy

\* wrangler returns; a failure ends the script with its status, otherwise the
\* closing echo lines run and the script ends with the status of the last echo.
DeployReturns(status) ==
    /\ pc = "deploy"
    /\ deployState = "running"
    /\ deployState' = "done"
    /\ deployExit' = status
    /\ pc' = "exited"
    /\ IF ErrExit(status)
          THEN /\ scriptExit' = ExitStatus(status)
               /\ UNCHANGED printed
          ELSE /\ printed' = printed \cup {MsgComplete, MsgUrl}
               /\ scriptExit' = 0
    /\ UNCHANGED <<buildState, buildExit>>
    /\ UNCHANGED exceptDeploy

SpecDeployNext ==
    \/ StartBuild
    \/ \E status \in ExitCodes : BuildReturns(status)
    \/ \E status \in ExitCodes : DeployReturns(status)

----------------------------------------------------------------------------
(* Multi-agent workflow (docs/guide/workflow)                               *)

Agents == {"product", "tech-lead", "developer", "qa", "devops"}

\* The review point that follows each agent in the review chart.
ReviewPoint(agent) ==
    CASE agent = "product"   -> "PRD"
      [] agent = "tech-lead" -> "TechDesign"
      [] agent = "developer" -> "Implementation"
      [] agent = "qa"        -> "ApproveForDeploy"
      [] OTHER               -> "none"

ReviewPoints == {"PRD", "TechDesign", "Implementation", "ApproveForDeploy"}

\* The agent the chart hands over to after a YES.
NextAgent(agent) ==
    CASE agent = "product"   -> "tech-lead"
      [] agent = "tech-lead" -> "developer"
      [] agent = "developer" -> "qa"
      [] agent = "qa"        -> "devops"
      [] OTHER               -> "none"

PrevAgent(agent) ==
    CASE agent = "tech-lead" -> "product"
      [] agent = "developer" -> "tech-lead"
      [] agent = "qa"        -> "developer"
      [] agent = "devops"    -> "qa"
      [] OTHER               -> "none"

InitWorkflow ==
    /\ wfAgent = "none"
    /\ wfPhase = "idle"
    /\ wfApprovals = {}
    /\ wfOutputs = {}
    /\ wfDeployed = FALSE

\* The client types "@workflow/agents/<agent>.md <instruction>".  Every agent
\* file is self-contained and can be called directly, so any agent can open a
\* run (product for a new app or feature, developer for a bug fix, qa to run
\* tests, devops to deploy).
CallAgent(agent) ==
    /\ wfPhase = "idle"
    /\ wfAgent' = agent
    /\ wfPhase' = "working"
    /\ wfApprovals' = {}
    /\ wfDeployed' = FALSE
    /\ UNCHANGED wfOutputs
    /\ UNCHANGED exceptWorkflow

\* The agent finishes its work and stores its output.  Product, Tech Lead,
\* Developer and QA then stop at their review point; DevOps ends in DEPLOYED.
AgentFinishes ==
    /\ wfPhase = "working"
    /\ wfOutputs' = wfOutputs \cup {wfAgent}
    /\ IF wfAgent = "devops"
          THEN /\ wfDeployed' = TRUE
               /\ wfPhase' = "idle"
          ELSE /\ wfPhase' = "review"
               /\ UNCHANGED wfDeployed
    /\ UNCHANGED <<wfAgent, wfApprovals>>
    /\ UNCHANGED exceptWorkflow

\* CLIENT REVIEW answered YES: the next agent of the chart takes over.
ClientApproves ==
    /\ wfPhase = "review"
    /\ wfApprovals' = wfApprovals \cup {ReviewPoint(wfAgent)}
    /\ wfAgent' = NextAgent(wfAgent)
    /\ wfPhase' = "working"
    /\ UNCHANGED <<wfOutputs, wfDeployed>>
    /\ UNCHANGED exceptWorkflow

\* The client requests changes: the same agent works again.
ClientRequestsChanges ==
    /\ wfPhase = "review"
    /\ wfPhase' = "working"
    /\ UNCHANGED <<wfAgent, wfApprovals, wfOutputs, wfDeployed>>
    /\ UNCHANGED exceptWorkflow

SpecWorkflowNext ==
    \/ \E agent \in Agents : CallAgent(agent)
    \/ AgentFinishes
    \/ ClientApproves
    \/ ClientRequestsChanges

----------------------------------------------------------------------------
(* Storage abstraction: createStorage, LocalStorage, S3Storage              *)

\* Number of distinct storage keys used by the calls on the providers.
MaxKeys == 2
\* Largest content length of an uploaded buffer in the provider calls.
MaxContentLength == 2

Keys == 1..MaxKeys
ContentLengths == 1..MaxContentLength

Providers == {"LocalStorage", "S3Storage"}

\* Values of process.env.STORAGE_DRIVER; Unset stands for undefined.
Unset == "<unset>"
EnvValues == {Unset, "", "local", "s3", "S3", "gcs"}

\* JavaScript's a || b on an environment string: undefined and "" are falsy.
OrDefault(value, default) == IF value = Unset \/ value = "" THEN default ELSE value

\* A factory that takes every driver other than "local" for S3.
createStorage_notLocal(env) ==
    IF OrDefault(env, "local") = "local" THEN "LocalStorage" ELSE "S3Storage"

createStorage(env) ==
    LET driver == OrDefault(env, "local")
    IN  IF driver = "s3" THEN "S3Storage" ELSE "LocalStorage"

HasKey(store, key) == \E o \in store : o.key = key
Without(store, key) == {o \in store : o.key # key}
Put(store, key, size) == Without(store, key) \cup {[key |-> key, size |-> size]}

\* Each provider method maps the provider's store to the new store and the
\* outcome the caller observes ("ok" = the promise resolves, "throws" = it
\* rejects, "true"/"false" = the boolean it resolves to).
LocalStorage_upload(store, key, size) ==
    [store |-> Put(store, key, size), outcome |-> "ok"]

LocalStorage_exists(store, key) ==
    [store |-> store, outcome |-> IF HasKey(store, key) THEN "true" ELSE "false"]

\* unlink rejects with ENOENT when the file is missing.
LocalStorage_delete(store, key) ==
    IF HasKey(store, key)
       THEN [store |-> Without(store, key), outcome |-> "ok"]
       ELSE [store |-> store, outcome |-> "throws"]

S3Storage_upload(store, key, size) ==
    [store |-> Put(store, key, size), outcome |-> "ok"]

S3Storage_exists(store, key) ==
    [store |-> store, outcome |-> IF HasKey(store, key) THEN "true" ELSE "false"]

\* DeleteObject answers 204 whether or not the key exists.
S3Storage_delete(store, key) ==
    [store |-> Without(store, key), outcome |-> "ok"]

ProviderUpload(provider, store, key, size) ==
    IF provider = "S3Storage" THEN S3Storage_upload(store, key, size)
                              ELSE LocalStorage_upload(store, key, size)

ProviderExists(provider, store, key) ==
    IF provider = "S3Storage" THEN S3Storage_exists(store, key)
                              ELSE LocalStorage_exists(store, key)

ProviderDelete(provider, store, key) ==
    IF provider = "S3Storage" THEN S3Storage_delete(store, key)
                              ELSE LocalStorage_delete(store, key)

\* getPublicUrl joins a base (LOCAL_STORAGE_URL, or CDN_URL / endpoint+bucket)
\* and the key with one "/"; the URL is kept as the pair of its parts.
getPublicUrl(provider, key) ==
    IF provider = "S3Storage" THEN <<"cdn", key>> ELSE <<"/storage", key>>

NoStorageCall == [op |-> "none", key |-> 0, outcome |-> [p \in Providers |-> "none"]]

InitStorageIdle ==
    /\ STORAGE_DRIVER = Unset
    /\ storage = "none"
    /\ files = [p \in Providers |-> {}]
    /\ storageCall = NoStorageCall

\* The two documented configurations: the default and STORAGE_DRIVER=s3.
DocumentedEnvValues == {Unset, "s3"}

InitStorageDocumented ==
    /\ STORAGE_DRIVER \in DocumentedEnvValues
    /\ storage = "none"
    /\ files = [p \in Providers |-> {}]
    /\ storageCall = NoStorageCall

InitStorage ==
    /\ STORAGE_DRIVER \in EnvValues
    /\ storage = "none"
    /\ files = [p \in Providers |-> {}]
    /\ storageCall = NoStorageCall

\* const storage = createStorage()
CreateStorage ==
    /\ storage = "none"
    /\ storage' = createStorage(STORAGE_DRIVER)
    /\ UNCHANGED <<STORAGE_DRIVER, files, storageCall>>
    /\ UNCHANGED exceptStorage

\* The same call is made on a LocalStorage and on an S3Storage instance.
StorageUpload(key, size) ==
    LET r == [p \in Providers |-> ProviderUpload(p, files[p], key, size)]
    IN  /\ files' = [p \in Providers |-> r[p].store]
        /\ storageCall' = [op |-> "upload", key |-> key,
                           outcome |-> [p \in Providers |-> r[p].outcome]]
        /\ UNCHANGED <<STORAGE_DRIVER, storage>>
        /\ UNCHANGED exceptStorage

StorageExists(key) ==
    LET r == [p \in Providers |-> ProviderExists(p, files[p], key)]
    IN  /\ files' = [p \in Providers |-> r[p].store]
        /\ storageCall' = [op |-> "exists", key |-> key,
                           outcome |-> [p \in Providers |-> r[p].outcome]]
        /\ UNCHANGED <<STORAGE_DRIVER, storage>>
        /\ UNCHANGED exceptStorage

StorageDelete(key) ==
    LET r == [p \in Providers |-> ProviderDelete(p, files[p], key)]
    IN  /\ files' = [p \in Providers |-> r[p].store]
        /\ storageCall' = [op |-> "delete", key |-> key,
                           outcome |-> [p \in Providers |-> r[p].outcome]]
        /\ UNCHANGED <<STORAGE_DRIVER, storage>>
        /\ UNCHANGED exceptStorage

SpecStorageNext ==
    \/ CreateStorage
    \/ \E key \in Keys, size \in ContentLengths : StorageUpload(key, size)
    \/ \E key \in Keys : StorageExists(key)
    \/ \E key \in Keys : StorageDelete(key)

----------------------------------------------------------------------------
(* UploadService.handle, AssetRepository.create, shared/lib/image           *)

\* Number of uuidv7() values the model hands out.
MaxUuids == 3
Users == {"user-1"}
\* Lengths of the buffer image processing returns.
ProcessedLengths == {1, 2}

DefaultMaxSize == 5 * 1024 * 1024
ApiMaxSize == 10 * 1024 * 1024
\* options.maxSize: given with a value, or left undefined.
Undefined == [given |-> FALSE, value |-> 0]
Given(value) == [given |-> TRUE, value |-> value]

\* file.size of the uploaded files, and options.maxSize of the callers.
FileSizes == {DefaultMaxSize - 1, DefaultMaxSize, DefaultMaxSize + 1,
              ApiMaxSize, ApiMaxSize + 1}
MaxSizeOptions == {Undefined, Given(ApiMaxSize)}

\* file.type, kept as the parts between "/".
MimeTypes == {<<"image", "png">>, <<"application", "pdf">>, <<"text">>}

isImageMimeType(mimeType) ==
    mimeType \in {<<"image", "jpeg">>, <<"image", "png">>,
                  <<"image", "gif">>, <<"image", "webp">>}

\* mimeType.split('/')[1] || 'bin'
ExtensionOf(mimeType) ==
    IF Len(mimeType) >= 2 /\ mimeType[2] # "" THEN mimeType[2] ELSE "bin"

\* `uploads/${userId}/${id}.${ext}` as its path segments.
UploadKey(userId, id, ext) == <<"uploads", userId, [id |-> id, ext |-> ext]>>


\* Where handle can meet an exception; the name stands for error.message.
Faults == {"none", "processImage", "arrayBuffer", "upload", "insert"}

NoAsset == [id |-> 0]
NoUploadCall ==
    [called |-> FALSE, size |-> 0, maxSize |-> 0, mimeType |-> <<>>,
     shouldProcess |-> FALSE, fault |-> "none", steps |-> <<>>,
     rowsAdded |-> 0, objectsAdded |-> 0,
     result |-> [success |-> FALSE, error |-> "none", asset |-> NoAsset,
                 thrown |-> FALSE]]

\* A size check that is off by one.
TooLarge_orEqual(size, maxSize) == size >= maxSize

\* The size check of handle: the file is rejected when it is too large.
TooLarge(size, maxSize) == size > maxSize

\* A handle without the try/catch: the exception leaves the call.
CatchBlock_rethrow(message) ==
    [success |-> FALSE, error |-> message, asset |-> NoAsset, thrown |-> TRUE]

\* catch (error) { return { success: false, error: error.message } }
\* thrown tells whether the exception leaves handle.
CatchBlock(message) ==
    [success |-> FALSE, error |-> message, asset |-> NoAsset, thrown |-> FALSE]

\* A filename that is the whole key.
LastSegment_wholeKey(key) == key

\* key.split('/').pop()
LastSegment(key) == key[Len(key)]

\* AssetRepository.create: the row that is inserted and returned.
AssetRepository_create(id, data) ==
    [id |-> id, userId |-> data.userId, filename |-> data.filename,
     mimeType |-> data.mimeType, size |-> data.size, path |-> data.path,
     url |-> data.url, metadata |-> data.metadata]

InitUpload ==
    /\ assets = <<>>
    /\ uuidCounter = 0
    /\ uploadCall = NoUploadCall

\* The body of UploadService.handle(file, userId, options): the steps it went
\* through, what it returns, and the storage, table and uuid source it leaves.
\* processedLen is the length of the buffer sharp returns; fault names the
\* call that throws, if any (the catch block turns it into a result).
handle(size, mimeType, userId, maxSizeOpt, shouldProcess, processedLen, fault) ==
    LET maxSize   == IF maxSizeOpt.given THEN maxSizeOpt.value ELSE DefaultMaxSize
        isImage   == isImageMimeType(mimeType)
        process   == isImage /\ shouldProcess
        id        == uuidCounter + 1
        key       == IF process THEN UploadKey(userId, id, "webp")
                                ELSE UploadKey(userId, id, ExtensionOf(mimeType))
        finalLen  == IF process THEN processedLen ELSE size
        readStep  == IF process THEN "processImage" ELSE "arrayBuffer"
        up        == ProviderUpload(storage, files[storage], key, finalLen)
        row       == AssetRepository_create(id + 1,
                        [userId |-> userId, filename |-> LastSegment(key),
                         mimeType |-> IF isImage THEN <<"image", "webp">> ELSE mimeType,
                         size |-> finalLen, path |-> key,
                         url |-> getPublicUrl(storage, key),
                         metadata |-> process])
    IN
    IF TooLarge(size, maxSize)
       THEN [steps |-> <<>>,
             result |-> [success |-> FALSE, error |-> "File too large",
                         asset |-> NoAsset, thrown |-> FALSE],
             store |-> files[storage], assets |-> assets, uuids |-> uuidCounter]
    ELSE IF fault = readStep
       THEN [steps |-> <<>>, result |-> CatchBlock(fault),
             store |-> files[storage], assets |-> assets, uuids |-> id]
    ELSE IF fault = "upload"
       THEN [steps |-> <<readStep>>, result |-> CatchBlock(fault),
             store |-> files[storage], assets |-> assets, uuids |-> id]
    ELSE IF fault = "insert"
       THEN [steps |-> <<readStep, "upload">>, result |-> CatchBlock(fault),
             store |-> up.store, assets |-> assets, uuids |-> id + 1]
       ELSE [steps |-> <<readStep, "upload", "insert">>,
             result |-> [success |-> TRUE, error |-> "none", asset |-> row,
                         thrown |-> FALSE],
             store |-> up.store, assets |-> Append(assets, row), uuids |-> id + 1]

\* One call of UploadService.handle on the service's storage and repository.
UploadService_handle(size, mimeType, userId, maxSizeOpt, shouldProcess, processedLen, fault) ==
    LET h == handle(size, mimeType, userId, maxSizeOpt, shouldProcess, processedLen, fault)
    IN
    /\ storage # "none"
    /\ uuidCounter + 2 <= MaxUuids
    /\ files' = [files EXCEPT ![storage] = h.store]
    /\ assets' = h.assets
    /\ uuidCounter' = h.uuids
    /\ uploadCall' =
          [called |-> TRUE, size |-> size,
           maxSize |-> IF maxSizeOpt.given THEN maxSizeOpt.value ELSE DefaultMaxSize,
           mimeType |-> mimeType, shouldProcess |-> shouldProcess, fault |-> fault,
           steps |-> h.steps,
           rowsAdded |-> Len(h.assets) - Len(assets),
           objectsAdded |-> Cardinality(h.store) - Cardinality(files[storage]),
           result |-> h.result]
    /\ UNCHANGED <<STORAGE_DRIVER, storage, storageCall>>
    /\ UNCHANGED exceptUpload

SpecUploadNext ==
    \/ CreateStorage
    \/ \E size \in FileSizes, mimeType \in MimeTypes, userId \in Users,
          maxSizeOpt \in MaxSizeOptions, shouldProcess \in BOOLEAN,
          processedLen \in ProcessedLengths, fault \in Faults :
            UploadService_handle(size, mimeType, userId, maxSizeOpt,
                                 shouldProcess, processedLen, fault)

----------------------------------------------------------------------------
(* Feature APIs: invoiceApi / InvoiceService / InvoiceRepository and        *)
(* productApi / ProductService / ProductRepository                          *)

\* Number of rows each feature table ever receives.
MaxRows == 2

Features == {"invoices", "products"}
RowIds == 1..MaxRows

\* Strings whose length matters are kept as character sequences.
EmptyString == <<>>
JohnDoe == <<"J", "o", "h", "n">>
LongString == [i \in 1..256 |-> "x"]

\* t.Object({ customer: t.String({minLength: 1, maxLength: 255}),
\*            amount: t.Number({minimum: 0}) })
CreateInvoiceSchema(body) ==
    /\ Len(body.customer) >= 1
    /\ Len(body.customer) <= 255
    /\ body.amount >= 0

\* t.Partial(t.Object({ ..., status: pending | paid | cancelled })); the
\* update bodies of the model carry the status field.
UpdateInvoiceSchema(body) == body.status \in {"pending", "paid", "cancelled"}

\* t.Object({ name: 1..255 chars, price >= 0, stock >= 0, category: >= 1 char })
CreateProductSchema(body) ==
    /\ Len(body.name) >= 1
    /\ Len(body.name) <= 255
    /\ body.price >= 0
    /\ body.stock >= 0
    /\ Len(body.category) >= 1

\* t.Partial(CreateProductSchema); the update bodies carry the price field.
UpdateProductSchema(body) == body.price >= 0

InvoicePayloads ==
    {[customer |-> JohnDoe,     amount |-> 100],
     [customer |-> JohnDoe,     amount |-> -100],
     [customer |-> EmptyString, amount |-> -100],
     [customer |-> LongString,  amount |-> 100]}
InvoiceUpdates == [status : {"paid", "refunded"}]
ProductPayloads ==
    [name : {EmptyString, <<"P", "e", "n">>}, price : {-1, 5}, stock : {0},
     category : {<<"o", "f", "f">>}]
ProductUpdates == [price : {-1, 7}]

CreateBodies(feature) == IF feature = "invoices" THEN InvoicePayloads ELSE ProductPayloads
UpdateBodies(feature) == IF feature = "invoices" THEN InvoiceUpdates ELSE ProductUpdates

CreateSchema(feature, body) ==
    IF feature = "invoices" THEN CreateInvoiceSchema(body) ELSE CreateProductSchema(body)
UpdateSchema(feature, body) ==
    IF feature = "invoices" THEN UpdateInvoiceSchema(body) ELSE UpdateProductSchema(body)

ListUrl(feature) == IF feature = "invoices" THEN "/invoices" ELSE "/products"
Page(feature, name) == <<feature, name>>

\* ---- repositories: each maps the table to the new table and the value ----

\* insertInto(table).values({ id, ...data, ... }).returningAll()
Repository_create(feature, id, data) ==
    IF feature = "invoices"
       THEN [id |-> id, customer |-> data.customer, amount |-> data.amount,
             status |-> "pending"]
       ELSE [id |-> id, name |-> data.name, price |-> data.price,
             stock |-> data.stock, category |-> data.category]

\* updateTable(t).set({ ...data }).where('id', '=', id)
Repository_update(table, id, data) ==
    [i \in 1..Len(table) |->
        IF table[i].id = id
           THEN [f \in DOMAIN table[i] |->
                    IF f \in DOMAIN data THEN data[f] ELSE table[i][f]]
           ELSE table[i]]

\* deleteFrom(t).where('id', '=', id)
Repository_delete(table, id) == SelectSeq(table, LAMBDA r : r.id # id)

Repository_findById(table, id) == \E i \in 1..Len(table) : table[i].id = id

\* ---- services: they hand the payload to the repository ----
InvoiceService_create(id, payload) == Repository_create("invoices", id, payload)
Service_create(feature, id, payload) == Repository_create(feature, id, payload)
Service_update(table, id, data) == Repository_update(table, id, data)
Service_delete(table, id) == Repository_delete(table, id)

\* ---- framework pieces ----
Cookies == {"none", "invalid", "valid"}

\* createProtectedApi(prefix) / authApi + .auth(true): the routes of the
\* returned app run only for a request that carries a valid auth cookie.
createProtectedApi(cookie) == cookie = "valid"

\* A feature API built with a plain new Elysia({ prefix }).
RouteGuard_plainElysia(cookie) == TRUE

\* The guard every route of a feature API is built with.
RouteGuard(cookie) == createProtectedApi(cookie)

inertia_render(page)  == [kind |-> "render",   status |-> 200, target |-> page]
inertia_redirect(url) == [kind |-> "redirect", status |-> 302, target |-> <<url>>]
Unauthenticated       == [kind |-> "unauthenticated", status |-> 0, target |-> <<>>]
ValidationError       == [kind |-> "validation",      status |-> 422, target |-> <<>>]
InternalError         == [kind |-> "error",           status |-> 500, target |-> <<>>]

Call(feature, method, route, id, cookie, bodyValid, ran, calls, completed, response) ==
    [feature |-> feature, method |-> method, route |-> route, id |-> id,
     cookie |-> cookie, bodyValid |-> bodyValid, handlerRan |-> ran,
     serviceCalls |-> calls, completed |-> completed, response |-> response]

NoApiCall == Call("none", "none", "none", 0, "none", FALSE, FALSE, <<>>, FALSE,
                  [kind |-> "none", status |-> 0, target |-> <<>>])
NoServiceCall == [valid |-> FALSE, outcome |-> "none", inserted |-> FALSE]

InitApiIdle ==
    /\ mounted = "invoices"
    /\ rows = <<>>
    /\ rowCounter = 0
    /\ apiCall = NoApiCall
    /\ serviceCall = NoServiceCall

\* const app = new Elysia().use(invoiceApi)   (or productApi)
InitApi ==
    /\ mounted \in Features
    /\ rows = <<>>
    /\ rowCounter = 0
    /\ apiCall = NoApiCall
    /\ serviceCall = NoServiceCall

\* ---- what each route handler returns once its service call is through ----
ListHandlerResponse(feature)   == inertia_render(Page(feature, "Index"))
CreateFormResponse(feature)    == inertia_render(Page(feature, "Create"))
\* A store handler that renders the form again instead of redirecting.
PostHandlerResponse_render(feature) == inertia_render(Page(feature, "Create"))

PostHandlerResponse(feature)   == inertia_redirect(ListUrl(feature))
EditHandlerResponse(feature)   == inertia_render(Page(feature, "Edit"))
PutHandlerResponse(feature)    == inertia_redirect(ListUrl(feature))
DeleteHandlerResponse(feature) == inertia_redirect(ListUrl(feature))

\* A request the framework answers itself: the guard turns away a request
\* without a valid cookie, body validation one whose body violates the route
\* schema.  For a request that fails both, either answer is possible.
TurnedAway(feature, method, route, id, cookie, bodyValid) ==
    /\ ~RouteGuard(cookie) \/ ~bodyValid
    /\ \E response \in {Unauthenticated, ValidationError} :
          /\ response = Unauthenticated => ~RouteGuard(cookie)
          /\ response = ValidationError => ~bodyValid
          /\ apiCall' = Call(feature, method, route, id, cookie, bodyValid,
                             FALSE, <<>>, FALSE, response)
    /\ UNCHANGED <<rows, rowCounter>>

\* The handler ran but its service call threw (database error): Elysia
\* answers with an error, nothing is rendered or redirected.
Threw(feature, method, route, id, cookie, calls) ==
    /\ apiCall' = Call(feature, method, route, id, cookie, TRUE,
                       TRUE, calls, FALSE, InternalError)
    /\ UNCHANGED <<rows, rowCounter>>

\* GET /
RouteList(feature, cookie, dbFails) ==
    /\ IF ~RouteGuard(cookie)
          THEN TurnedAway(feature, "GET", "/", 0, cookie, TRUE)
       ELSE IF dbFails
          THEN Threw(feature, "GET", "/", 0, cookie, <<"getAll">>)
          ELSE /\ apiCall' = Call(feature, "GET", "/", 0, cookie, TRUE, TRUE,
                                  <<"getAll">>, TRUE, ListHandlerResponse(feature))
               /\ UNCHANGED <<rows, rowCounter>>
    /\ mounted = feature
    /\ serviceCall' = NoServiceCall
    /\ UNCHANGED mounted
    /\ UNCHANGED exceptApi

\* GET /create
RouteCreateForm(feature, cookie) ==
    /\ IF ~RouteGuard(cookie)
          THEN TurnedAway(feature, "GET", "/create", 0, cookie, TRUE)
          ELSE /\ apiCall' = Call(feature, "GET", "/create", 0, cookie, TRUE, TRUE,
                                  <<>>, TRUE, CreateFormResponse(feature))
               /\ UNCHANGED <<rows, rowCounter>>
    /\ mounted = feature
    /\ serviceCall' = NoServiceCall
    /\ UNCHANGED mounted
    /\ UNCHANGED exceptApi

\* POST /   { body: Create...Schema }
RoutePost(feature, cookie, body, dbFails) ==
    LET bodyValid == CreateSchema(feature, body)
        id == rowCounter + 1
    IN
    /\ rowCounter < MaxRows
    /\ IF ~RouteGuard(cookie) \/ ~bodyValid
          THEN TurnedAway(feature, "POST", "/", 0, cookie, bodyValid)
       ELSE IF dbFails
          THEN Threw(feature, "POST", "/", 0, cookie, <<"create">>)
          ELSE /\ rows' = Append(rows, Service_create(feature, id, body))
               /\ rowCounter' = id
               /\ apiCall' = Call(feature, "POST", "/", 0, cookie, TRUE, TRUE,
                                  <<"create">>, TRUE, PostHandlerResponse(feature))
    /\ mounted = feature
    /\ serviceCall' = NoServiceCall
    /\ UNCHANGED mounted
    /\ UNCHANGED exceptApi

\* GET /:id/edit
RouteEdit(feature, id, cookie, dbFails) ==
    /\ IF ~RouteGuard(cookie)
          THEN TurnedAway(feature, "GET", "/:id/edit", id, cookie, TRUE)
       ELSE IF dbFails
          THEN Threw(feature, "GET", "/:id/edit", id, cookie, <<"getById">>)
          ELSE /\ apiCall' = Call(feature, "GET", "/:id/edit", id, cookie, TRUE, TRUE,
                                  <<"getById">>, TRUE, EditHandlerResponse(feature))
               /\ UNCHANGED <<rows, rowCounter>>
    /\ mounted = feature
    /\ serviceCall' = NoServiceCall
    /\ UNCHANGED mounted
    /\ UNCHANGED exceptApi

\* PUT /:id   { body: Update...Schema }
RoutePut(feature, id, cookie, body, dbFails) ==
    LET bodyValid == UpdateSchema(feature, body)
    IN
    /\ IF ~RouteGuard(cookie) \/ ~bodyValid
          THEN TurnedAway(feature, "PUT", "/:id", id, cookie, bodyValid)
       ELSE IF dbFails
          THEN Threw(feature, "PUT", "/:id", id, cookie, <<"update">>)
          ELSE /\ rows' = Service_update(rows, id, body)
               /\ apiCall' = Call(feature, "PUT", "/:id", id, cookie, TRUE, TRUE,
                                  <<"update">>, TRUE, PutHandlerResponse(feature))
               /\ UNCHANGED rowCounter
    /\ mounted = feature
    /\ serviceCall' = NoServiceCall
    /\ UNCHANGED mounted
    /\ UNCHANGED exceptApi

\* DELETE /:id
RouteDelete(feature, id, cookie, dbFails) ==
    /\ IF ~RouteGuard(cookie)
          THEN TurnedAway(feature, "DELETE", "/:id", id, cookie, TRUE)
       ELSE IF dbFails
          THEN Threw(feature, "DELETE", "/:id", id, cookie, <<"delete">>)
          ELSE /\ rows' = Service_delete(rows, id)
               /\ apiCall' = Call(feature, "DELETE", "/:id", id, cookie, TRUE, TRUE,
                                  <<"delete">>, TRUE, DeleteHandlerResponse(feature))
               /\ UNCHANGED rowCounter
    /\ mounted = feature
    /\ serviceCall' = NoServiceCall
    /\ UNCHANGED mounted
    /\ UNCHANGED exceptApi

\* service.create(payload) called directly, as the service unit test does.
InvoiceServiceCreate(payload, dbFails) ==
    LET id == rowCounter + 1
    IN
    /\ mounted = "invoices"
    /\ rowCounter < MaxRows
    /\ IF dbFails
          THEN /\ serviceCall' = [valid |-> CreateInvoiceSchema(payload),
                                  outcome |-> "rejected", inserted |-> FALSE]
               /\ UNCHANGED <<rows, rowCounter>>
          ELSE /\ rows' = Append(rows, InvoiceService_create(id, payload))
               /\ rowCounter' = id
               /\ serviceCall' = [valid |-> CreateInvoiceSchema(payload),
                                  outcome |-> "resolved", inserted |-> TRUE]
    /\ apiCall' = NoApiCall
    /\ UNCHANGED mounted
    /\ UNCHANGED exceptApi

SpecApiNext ==
    \/ \E f \in Features, c \in Cookies, dbFails \in BOOLEAN : RouteList(f, c, dbFails)
    \/ \E f \in Features, c \in Cookies : RouteCreateForm(f, c)
    \/ \E f \in Features, c \in Cookies, dbFails \in BOOLEAN :
          \E body \in CreateBodies(f) : RoutePost(f, c, body, dbFails)
    \/ \E f \in Features, id \in RowIds, c \in Cookies, dbFails \in BOOLEAN :
          RouteEdit(f, id, c, dbFails)
    \/ \E f \in Features, id \in RowIds, c \in Cookies, dbFails \in BOOLEAN :
          \E body \in UpdateBodies(f) : RoutePut(f, id, c, body, dbFails)
    \/ \E f \in Features, id \in RowIds, c \in Cookies, dbFails \in BOOLEAN :
          RouteDelete(f, id, c, dbFails)
    \/ \E payload \in InvoicePayloads, dbFails \in BOOLEAN :
          InvoiceServiceCreate(payload, dbFails)

----------------------------------------------------------------------------
(* Quick-start tasks feature: taskApi, TaskService, TaskRepository           *)

\* CreateTaskSchema: t.Object({ title: t.String({ minLength: 1, maxLength:
\* 255 }), description: t.Optional(t.String()) })
CreateTaskSchema(body) ==
    /\ Len(body.title) >= 1
    /\ Len(body.title) <= 255

\* UpdateTaskSchema: t.Partial(t.Object({ title, description, status:
\* 'pending' | 'in_progress' | 'completed' })): a field that is given must fit
UpdateTaskSchema(body) ==
    /\ "title" \in DOMAIN body => (Len(body.title) >= 1 /\ Len(body.title) <= 255)
    /\ "status" \in DOMAIN body => body.status \in {"pending", "in_progress", "completed"}

\* TaskRepository.create: the row inserted for the payload
TaskRepository_create(id, data) ==
    [id |-> id, title |-> data.title, status |-> "pending"]

\* taskService.getById(id) -> repo.findById(id): the row, or undefined when
\* no row has the id (executeTakeFirst)
TaskService_getById(table, id) ==
    IF \E i \in 1..Len(table) : table[i].id = id
       THEN Given(table[CHOOSE i \in 1..Len(table) : table[i].id = id])
       ELSE Undefined

\* What the POST / handler returns: the redirect when taskService.create
\* returned, the form with errors.message when it threw.
TaskPostResponse(threw, message) ==
    IF threw
       THEN [kind |-> "render", status |-> 200, target |-> <<"tasks", "Create">>,
             errors |-> [message |-> message]]
       ELSE inertia_redirect("/tasks")

\* An edit handler without the `if (!task)` branch.
TaskEditResponse_noCheck(task) ==
    [kind |-> "render", status |-> 200, target |-> <<"tasks", "Edit">>, task |-> task]

\* What the GET /:id/edit handler returns for the task getById gave it.
TaskEditResponse(task) ==
    IF ~task.given
       THEN [kind |-> "render", status |-> 200, target |-> <<"errors", "404">>,
             task |-> Undefined]
       ELSE [kind |-> "render", status |-> 200, target |-> <<"tasks", "Edit">>,
             task |-> task]

\* const app = new Elysia().use(taskApi), with an empty tasks table
InitTasks ==
    /\ mounted = "tasks"
    /\ rows = <<>>
    /\ rowCounter = 0
    /\ apiCall = NoApiCall
    /\ serviceCall = NoServiceCall

\* POST /tasks   { body: CreateTaskSchema }
TaskPost(cookie, body, dbFails) ==
    LET bodyValid == CreateTaskSchema(body)
        id == rowCounter + 1
    IN
    /\ mounted = "tasks"
    /\ rowCounter < MaxRows
    /\ IF ~RouteGuard(cookie) \/ ~bodyValid
          THEN TurnedAway("tasks", "POST", "/", 0, cookie, bodyValid)
       ELSE IF dbFails
          THEN /\ apiCall' = Call("tasks", "POST", "/", 0, cookie, TRUE, TRUE,
                                  <<"create">>, FALSE,
                                  TaskPostResponse(TRUE, "SQLITE_ERROR"))
               /\ UNCHANGED <<rows, rowCounter>>
          ELSE /\ rows' = Append(rows, TaskRepository_create(id, body))
               /\ rowCounter' = id
               /\ apiCall' = Call("tasks", "POST", "/", 0, cookie, TRUE, TRUE,
                                  <<"create">>, TRUE, TaskPostResponse(FALSE, ""))
    /\ UNCHANGED <<mounted, serviceCall>>
    /\ UNCHANGED exceptApi

\* GET /tasks/:id/edit
TaskEdit(id, cookie, dbFails) ==
    /\ mounted = "tasks"
    /\ IF ~RouteGuard(cookie)
          THEN TurnedAway("tasks", "GET", "/:id/edit", id, cookie, TRUE)
       ELSE IF dbFails
          THEN Threw("tasks", "GET", "/:id/edit", id, cookie, <<"getById">>)
          ELSE /\ apiCall' = Call("tasks", "GET", "/:id/edit", id, cookie, TRUE, TRUE,
                                  <<"getById">>, TRUE,
                                  TaskEditResponse(TaskService_getById(rows, id)))
               /\ UNCHANGED <<rows, rowCounter>>
    /\ UNCHANGED <<mounted, serviceCall>>
    /\ UNCHANGED exceptApi

\* DELETE /tasks/:id
TaskDelete(id, cookie, dbFails) ==
    /\ mounted = "tasks"
    /\ IF ~RouteGuard(cookie)
          THEN TurnedAway("tasks", "DELETE", "/:id", id, cookie, TRUE)
       ELSE IF dbFails
          THEN Threw("tasks", "DELETE", "/:id", id, cookie, <<"delete">>)
          ELSE /\ rows' = Repository_delete(rows, id)
               /\ apiCall' = Call("tasks", "DELETE", "/:id", id, cookie, TRUE, TRUE,
                                  <<"delete">>, TRUE, inertia_redirect("/tasks"))
               /\ UNCHANGED rowCounter
    /\ UNCHANGED <<mounted, serviceCall>>
    /\ UNCHANGED exceptApi

\* What the PUT /:id handler returns: the value taskService.update resolved
\* with (the updated row, or undefined when no row has the id) is not looked
\* at; the catch block renders the form with the task and errors.message.
TaskPutResponse(updated, threw, task, message) ==
    IF threw
       THEN [kind |-> "render", status |-> 200, target |-> <<"tasks", "Edit">>,
             task |-> task, errors |-> [message |-> message]]
       ELSE inertia_redirect("/tasks")

\* PUT /tasks/:id   { body: UpdateTaskSchema }
\* updateFails: taskService.update throws; lookupFails: the getById of the
\* catch block throws as well.
TaskPut(id, cookie, body, updateFails, lookupFails) ==
    LET bodyValid == UpdateTaskSchema(body)
        after == Repository_update(rows, id, body)
    IN
    /\ mounted = "tasks"
    /\ IF ~RouteGuard(cookie) \/ ~bodyValid
          THEN TurnedAway("tasks", "PUT", "/:id", id, cookie, bodyValid)
       ELSE IF updateFails /\ lookupFails
          THEN Threw("tasks", "PUT", "/:id", id, cookie, <<"update", "getById">>)
       ELSE IF updateFails
          THEN /\ apiCall' = Call("tasks", "PUT", "/:id", id, cookie, TRUE, TRUE,
                                  <<"update", "getById">>, FALSE,
                                  TaskPutResponse(Undefined, TRUE,
                                                  TaskService_getById(rows, id),
                                                  "SQLITE_ERROR"))
               /\ UNCHANGED <<rows, rowCounter>>
          ELSE /\ rows' = after
               /\ apiCall' = Call("tasks", "PUT", "/:id", id, cookie, TRUE, TRUE,
                                  <<"update">>, TRUE,
                                  TaskPutResponse(TaskService_getById(after, id), FALSE,
                                                  Undefined, ""))
               /\ UNCHANGED rowCounter
    /\ UNCHANGED <<mounted, serviceCall>>
    /\ UNCHANGED exceptApi

SpecTasksNext ==
    \/ \E c \in Cookies, dbFails \in BOOLEAN :
          \E body \in [title : {EmptyString, <<"B", "u", "y">>, <<"F", "i", "x">>}] :
             TaskPost(c, body, dbFails)
    \/ \E id \in RowIds, c \in Cookies, dbFails \in BOOLEAN : TaskEdit(id, c, dbFails)
    \/ \E id \in RowIds, c \in Cookies, dbFails \in BOOLEAN : TaskDelete(id, c, dbFails)
    \/ \E id \in RowIds, c \in Cookies, updateFails \in BOOLEAN, lookupFails \in BOOLEAN :
          \E body \in [status : {"completed", "archived"}] :
             TaskPut(id, c, body, updateFails, lookupFails)

----------------------------------------------------------------------------
(* Presigned direct upload: GET /presign and the browser's uploadDirect     *)

\* Number of clock ticks of a behaviour.
MaxTicks == 4

\* storage.getPresignedUploadUrl(key, 'image/jpeg', 300)
PresignExpiresIn == 300

\* The clock moves in steps of half the lifetime of a presigned URL.
TickSeconds == PresignExpiresIn \div 2

\* A route that takes every provider to have getPresignedUploadUrl.
SupportsPresign_anyProvider(provider) == TRUE

\* if (!storage.getPresignedUploadUrl): S3Storage defines the method, the
\* StorageProvider interface and LocalStorage do not.
SupportsPresign(provider) == provider = "S3Storage"

\* getSignedUrl(client, new PutObjectCommand({ Key, ContentType, ... }),
\*              { expiresIn }): the URL names the key and the content type
\* and carries the time up to which S3 serves it.
getPresignedUploadUrl(key, contentType, expiresIn, signedAt) ==
    [key |-> key, contentType |-> contentType, expires |-> signedAt + expiresIn]

\* `uploads/${uuidv7()}.jpg`
PresignKey(id) == <<"uploads", [id |-> id, ext |-> "jpg"]>>

\* .get('/presign', ...): the status and the JSON body of the answer, for
\* the driver in the environment, the next uuid and the time of the request.
PresignRoute(driver, id, at) ==
    IF ~SupportsPresign(createStorage(driver))
       THEN [status |-> 400, body |-> [error |-> "Presigned URLs not supported"]]
       ELSE [status |-> 200,
             body |-> [url |-> getPresignedUploadUrl(PresignKey(id), "image/jpeg",
                                                     PresignExpiresIn, at),
                       key |-> PresignKey(id)]]

\* S3 serves a PUT to a presigned URL until the URL expires ("valid 5 min").
S3Accepts(url, at) == at <= url.expires

\* const { url, key } = body: a field the body lacks is undefined.
Field(body, name) == IF name \in DOMAIN body THEN Given(body[name]) ELSE Undefined

\* No request has been sent and uploadDirect has not been called.
InitPresign ==
    /\ now = 0
    /\ presignCall = [called |-> FALSE, driver |-> Unset, at |-> 0, status |-> 0,
                      body |-> <<>>]
    /\ direct = [pc |-> "idle", size |-> 0, url |-> Undefined, key |-> Undefined,
                 put |-> "none"]
    /\ sent = <<>>

\* Time passes.
Tick ==
    /\ now < MaxTicks * TickSeconds
    /\ now' = now + TickSeconds
    /\ UNCHANGED <<presignCall, direct, sent>>
    /\ UNCHANGED <<storageVars, uploadVars>>
    /\ UNCHANGED exceptPresign

\* uploadDirect(file), step 1:
\*   const { url, key } = await fetch('/uploads/presign').then(r => r.json())
\* The request runs the GET /presign handler.
UploadDirect_presign(size) ==
    LET answer == PresignRoute(STORAGE_DRIVER, uuidCounter + 1, now)
    IN
    /\ direct.pc \in {"idle", "done", "threw"}
    /\ uuidCounter < MaxUuids
    /\ presignCall' = [called |-> TRUE, driver |-> STORAGE_DRIVER, at |-> now,
                       status |-> answer.status, body |-> answer.body]
    /\ uuidCounter' = IF answer.status = 200 THEN uuidCounter + 1 ELSE uuidCounter
    /\ direct' = [pc |-> "put", size |-> size,
                  url |-> Field(answer.body, "url"),
                  key |-> Field(answer.body, "key"), put |-> "none"]
    /\ sent' = <<[request |-> "GET /uploads/presign", status |-> answer.status]>>
    /\ UNCHANGED <<now, storageVars, assets, uploadCall>>
    /\ UNCHANGED exceptPresign

\* uploadDirect(file), step 2:  await fetch(url, { method: 'PUT', body: file })
\* fetch rejects only when the request gets no answer; an answer with an
\* error status resolves like any other.
UploadDirect_put(answered) ==
    LET accepted == direct.url.given /\ S3Accepts(direct.url.value, now)
    IN
    /\ direct.pc = "put"
    /\ IF ~answered
          THEN /\ direct' = [direct EXCEPT !.pc = "threw", !.put = "failed"]
               /\ sent' = Append(sent, [request |-> "PUT url", status |-> 0])
               /\ UNCHANGED files
       ELSE IF accepted
          THEN /\ direct' = [direct EXCEPT !.pc = "complete", !.put = "stored"]
               /\ sent' = Append(sent, [request |-> "PUT url", status |-> 200])
               /\ files' = [files EXCEPT !["S3Storage"] =
                               Put(@, direct.url.value.key, direct.size)]
          ELSE /\ direct' = [direct EXCEPT !.pc = "complete", !.put = "rejected"]
               /\ sent' = Append(sent, [request |-> "PUT url",
                                        status |-> IF direct.url.given THEN 403 ELSE 404])
               /\ UNCHANGED files
    /\ UNCHANGED <<now, presignCall, STORAGE_DRIVER, storage, storageCall, uploadVars>>
    /\ UNCHANGED exceptPresign

\* uploadDirect(file), step 3:
\*   await fetch('/uploads/complete', { method: 'POST', body: { key, ... } })
UploadDirect_complete ==
    /\ direct.pc = "complete"
    /\ direct' = [direct EXCEPT !.pc = "done"]
    /\ sent' = Append(sent, [request |-> "POST /uploads/complete", status |-> 200])
    /\ UNCHANGED <<now, presignCall, storageVars, uploadVars>>
    /\ UNCHANGED exceptPresign

SpecPresignNext ==
    \/ Tick
    \/ \E size \in ContentLengths : UploadDirect_presign(size)
    \/ \E answered \in BOOLEAN : UploadDirect_put(answered)
    \/ UploadDirect_complete

----------------------------------------------------------------------------
(* Database backup (docs/guide/backup): the documented backup process       *)

\* Number of backup files a behaviour creates.
MaxBackups == 11
\* Number of DELETE /backup/:filename requests of a behaviour.
MaxBackupDeletes == 1

\* "Retention: Keep last 10 backups (configurable)"
DefaultRetentionCount == 10

\* The two triggers of a backup run: the interval timer and POST /backup/now.
Triggers == {"automatic", "manual"}

\* BACKUP_RETENTION_COUNT values of the model: not set, and small counts.
RetentionSettings == {Undefined, Given(1), Given(2)}

\* The number of backups to keep locally.
RetentionCount(setting) ==
    IF setting.given THEN setting.value ELSE DefaultRetentionCount

\* A cleanup that keeps one file more than the retention count.
MostRecent_oneMore(backups, n) ==
    {f \in backups : Cardinality({g \in backups : g > f}) <= n}

\* The n most recent of the backup files (their names are timestamps).
MostRecent(backups, n) ==
    {f \in backups : Cardinality({g \in backups : g > f}) < n}

InitBackup ==
    /\ backupConfig = [started |-> FALSE, retention |-> Undefined, s3Enabled |-> FALSE]
    /\ backupFiles = {}
    /\ backupClock = 0
    /\ backupRuns = [r \in Triggers |-> [pc |-> "idle", steps |-> <<>>, file |-> 0]]
    /\ backupDeletes = 0
    /\ lastCleanup = [done |-> FALSE, trigger |-> "none", retention |-> Undefined,
                      before |-> {}, after |-> {}]

\* The server starts with BACKUP_RETENTION_COUNT and BACKUP_S3_ENABLED as
\* .env sets them.
ServerStart(retention, s3Enabled) ==
    /\ ~backupConfig.started
    /\ backupConfig' = [started |-> TRUE, retention |-> retention,
                        s3Enabled |-> s3Enabled]
    /\ UNCHANGED <<backupFiles, backupClock, backupRuns, backupDeletes, lastCleanup>>
    /\ UNCHANGED exceptBackup

\* One step of the run of trigger r: it moves from position `from` to `to`
\* and the step is noted in the run's list of steps.
BackupStep(r, from, to, step) ==
    /\ backupRuns[r].pc = from
    /\ backupRuns' = [backupRuns EXCEPT ![r].pc = to, ![r].steps = Append(@, step)]

\* 1. WAL Checkpoint: PRAGMA wal_checkpoint(TRUNCATE).  A run begins here,
\* when the interval fires or POST /backup/now arrives.
WalCheckpoint(r) ==
    /\ backupConfig.started
    /\ backupClock < MaxBackups
    /\ backupRuns[r].pc = "idle"
    /\ backupRuns' = [backupRuns EXCEPT ![r] =
                         [pc |-> "checkpointed", steps |-> <<"checkpoint">>, file |-> 0]]
    /\ UNCHANGED <<backupConfig, backupFiles, backupClock, backupDeletes, lastCleanup>>
    /\ UNCHANGED exceptBackup

\* 2. Copy Database: dev.sqlite is copied to backup-<timestamp>.sqlite
CopyDatabase(r) ==
    /\ backupRuns[r].pc = "checkpointed"
    /\ backupRuns' = [backupRuns EXCEPT ![r] =
                         [pc |-> "copied", steps |-> Append(@.steps, "copy"),
                          file |-> backupClock + 1]]
    /\ backupClock' = backupClock + 1
    /\ backupFiles' = backupFiles \cup {backupClock + 1}
    /\ UNCHANGED <<backupConfig, backupDeletes, lastCleanup>>
    /\ UNCHANGED exceptBackup

\* 3. Convert to Single-File: PRAGMA journal_mode=DELETE on the copy
ConvertToSingleFile(r) ==
    /\ BackupStep(r, "copied", "converted", "convert")
    /\ UNCHANGED <<backupConfig, backupFiles, backupClock, backupDeletes, lastCleanup>>
    /\ UNCHANGED exceptBackup

\* 4. Upload to S3 (optional): done when BACKUP_S3_ENABLED, left out otherwise
UploadToS3(r) ==
    /\ IF backupConfig.s3Enabled
          THEN BackupStep(r, "converted", "uploaded", "s3")
          ELSE /\ backupRuns[r].pc = "converted"
               /\ backupRuns' = [backupRuns EXCEPT ![r].pc = "uploaded"]
    /\ UNCHANGED <<backupConfig, backupFiles, backupClock, backupDeletes, lastCleanup>>
    /\ UNCHANGED exceptBackup

\* 5. Cleanup: delete old backups beyond the retention limit
Cleanup(r) ==
    LET kept == MostRecent(backupFiles, RetentionCount(backupConfig.retention))
    IN
    /\ BackupStep(r, "uploaded", "idle", "cleanup")
    /\ backupFiles' = kept
    /\ lastCleanup' = [done |-> TRUE, trigger |-> r,
                       retention |-> backupConfig.retention,
                       before |-> backupFiles, after |-> kept]
    /\ UNCHANGED <<backupConfig, backupClock, backupDeletes>>
    /\ UNCHANGED exceptBackup

\* DELETE /backup/:filename
DeleteBackup(file) ==
    /\ backupDeletes < MaxBackupDeletes
    /\ file \in backupFiles
    /\ backupFiles' = backupFiles \ {file}
    /\ backupDeletes' = backupDeletes + 1
    /\ UNCHANGED <<backupConfig, backupClock, backupRuns, lastCleanup>>
    /\ UNCHANGED exceptBackup

SpecBackupNext ==
    \/ \E retention \in RetentionSettings, s3Enabled \in BOOLEAN :
          ServerStart(retention, s3Enabled)
    \/ \E r \in Triggers : WalCheckpoint(r)
    \/ \E r \in Triggers : CopyDatabase(r)
    \/ \E r \in Triggers : ConvertToSingleFile(r)
    \/ \E r \in Triggers : UploadToS3(r)
    \/ \E r \in Triggers : Cleanup(r)
    \/ \E file \in backupFiles : DeleteBackup(file)

----------------------------------------------------------------------------
(* Products list: ProductRepository.findAll, productApi GET /, Index.svelte  *)

\* Number of rows the products table ever holds.
MaxProducts == 25
\* Rows are created and deleted this many at a time (an import, a purge), so
\* that the table passes through sizes below, at and above a page boundary.
BatchSize == 5

\* const { page = 1, limit = 10, search, category } = options
DefaultPage == 1
DefaultLimit == 10
\* productService.getAll({ page, limit: 10, search, category })
RouteLimit == 10

\* The i-th product ever created: names and categories repeat with
\* different periods, so a search and a category filter cut the table
\* differently.
ProductRow(i) ==
    [id |-> i,
     name |-> IF i % 5 = 0 THEN <<"c", "u", "p">> ELSE <<"p", "e", "n">>,
     category |-> IF i % 3 = 0 THEN <<"h", "o", "m", "e">> ELSE <<"o", "f", "f">>]

\* name LIKE '%search%'
Like(name, search) ==
    \E i \in 0..(Len(name) - Len(search)) : SubSeq(name, i + 1, i + Len(search)) = search

\* JavaScript truthiness of an optional string: undefined and '' are falsy.
Truthy(param) == param.given /\ param.value # EmptyString

\* The query findAll builds: the where clauses for a truthy search and a
\* truthy category.
Filtered(table, search, category) ==
    SelectSeq(table, LAMBDA r :
        /\ Truthy(search) => Like(r.name, search.value)
        /\ Truthy(category) => r.category = category.value)

\* A findAll whose offset is page * limit.
findAll_offsetByPage(table, page, limit, search, category) ==
    LET p == IF page.given THEN page.value ELSE DefaultPage
        l == IF limit.given THEN limit.value ELSE DefaultLimit
        matching == Filtered(table, search, category)
        first == (IF p * l < 0 THEN 0 ELSE p * l) + 1
        last == IF first - 1 + l < Len(matching) THEN first - 1 + l ELSE Len(matching)
    IN  [items |-> SubSeq(matching, first, last), total |-> Len(matching),
         page |-> p, limit |-> l, totalPages |-> (Len(matching) + l - 1) \div l]

\* ProductRepository.findAll(options): count the matching rows, take `limit`
\* of them from offset (page - 1) * limit (SQLite reads a negative OFFSET as
\* 0), and return { items, total, page, limit, totalPages }.
findAll(table, page, limit, search, category) ==
    LET p == IF page.given THEN page.value ELSE DefaultPage
        l == IF limit.given THEN limit.value ELSE DefaultLimit
        matching == Filtered(table, search, category)
        offset == (p - 1) * l
        first == (IF offset < 0 THEN 0 ELSE offset) + 1
        last == IF first - 1 + l < Len(matching) THEN first - 1 + l ELSE Len(matching)
    IN  [items |-> SubSeq(matching, first, last), total |-> Len(matching),
         page |-> p, limit |-> l, totalPages |-> (Len(matching) + l - 1) \div l]

DigitChars == <<"0", "1", "2", "3", "4", "5", "6", "7", "8", "9">>

\* newPage.toString(), for the page numbers of the model (below 100)
RECURSIVE Digits(_)
Digits(abs) ==
    IF abs < 10 THEN <<DigitChars[abs + 1]>>
                ELSE Digits(abs \div 10) \o <<DigitChars[(abs % 10) + 1]>>

toString(n) ==
    IF n < 0 THEN <<"-">> \o Digits(-n) ELSE Digits(n)

\* Number(query.page): NaN for undefined and for a string that is no decimal
\* number, 0 for the empty string.
Number(param) ==
    LET str == param.value
        negative == str # <<>> /\ Head(str) = "-"
        body == IF negative THEN Tail(str) ELSE str
        isDigit(c) == \E d \in 1..10 : DigitChars[d] = c
        digit(c) == (CHOOSE d \in 1..10 : DigitChars[d] = c) - 1
        value[i \in 0..Len(body)] == IF i = 0 THEN 0 ELSE 10 * value[i - 1] + digit(body[i])
    IN  IF ~param.given THEN [nan |-> TRUE, value |-> 0]
        ELSE IF str = <<>> THEN [nan |-> FALSE, value |-> 0]
        ELSE IF body = <<>> \/ \E i \in 1..Len(body) : ~isDigit(body[i])
           THEN [nan |-> TRUE, value |-> 0]
        ELSE [nan |-> FALSE, value |-> IF negative THEN -value[Len(body)] ELSE value[Len(body)]]

\* const page = Number(query.page) || 1      (NaN and 0 are falsy)
PageOf(query) ==
    LET n == Number(Field(query, "page"))
    IN  IF n.nan \/ n.value = 0 THEN 1 ELSE n.value

\* query.search || '' : the parameter, or '' when it is missing
OrEmpty(param) == IF Truthy(param) THEN param.value ELSE EmptyString

\* .get('/', ...) of productApi: the props of products/Index
ProductsIndex(table, query) ==
    LET search == OrEmpty(Field(query, "search"))
        category == OrEmpty(Field(query, "category"))
        result == findAll(table, Given(PageOf(query)), Given(RouteLimit),
                          Given(search), Given(category))
    IN  [rendered |-> TRUE, items |-> result.items, total |-> result.total,
         page |-> result.page, limit |-> result.limit,
         totalPages |-> result.totalPages,
         filters |-> [search |-> search, category |-> category]]

\* applyFilters(): new URLSearchParams(), search and category set when truthy
applyFilters(searchQuery, selectedCategory) ==
    [n \in (IF searchQuery # EmptyString THEN {"search"} ELSE {})
           \cup (IF selectedCategory # EmptyString THEN {"category"} ELSE {}) |->
        IF n = "search" THEN searchQuery ELSE selectedCategory]

\* A goToPage that starts from new URLSearchParams(), as applyFilters does.
goToPage_fresh(search, newPage) == [n \in {"page"} |-> toString(newPage)]

\* goToPage(newPage): new URLSearchParams(window.location.search), page set
goToPage(search, newPage) ==
    [n \in DOMAIN search \cup {"page"} |->
        IF n = "page" THEN toString(newPage) ELSE search[n]]

\* {#if totalPages > 1}
ControlsShown(totalPages) == totalPages > 1
\* disabled={page <= 1}
PreviousDisabled(page) == page <= 1
\* A next button that is never disabled.
NextDisabled_never(page, totalPages) == FALSE
\* disabled={page >= totalPages}
NextDisabled(page, totalPages) == page >= totalPages

InitProducts ==
    /\ products = <<>>
    /\ location = <<>>
    /\ props = [rendered |-> FALSE, items |-> <<>>, total |-> 0, page |-> 0, limit |-> 0,
                totalPages |-> 0,
                filters |-> [search |-> EmptyString, category |-> EmptyString]]
    /\ lastNav = [kind |-> "none", searchQuery |-> EmptyString,
                  selectedCategory |-> EmptyString,
                  page |-> 0, totalPages |-> 0, search |-> <<>>]
    /\ findAllCall = [called |-> FALSE]

\* ProductRepository.create, BatchSize times
CreateProduct ==
    /\ Len(products) + BatchSize <= MaxProducts
    /\ products' = [i \in 1..(Len(products) + BatchSize) |-> ProductRow(i)]
    /\ UNCHANGED <<location, props, lastNav, findAllCall>>
    /\ UNCHANGED exceptProducts

\* ProductRepository.delete, of the BatchSize newest rows
DeleteProduct ==
    /\ products # <<>>
    /\ products' = SubSeq(products, 1, Len(products) - BatchSize)
    /\ UNCHANGED <<location, props, lastNav, findAllCall>>
    /\ UNCHANGED exceptProducts

\* router.get(`/products?${params}`): the browser requests the list with
\* these parameters and the Index page is rendered with the answer.
Navigate(kind, query, searchQuery, selectedCategory) ==
    /\ location' = query
    /\ props' = ProductsIndex(products, query)
    /\ lastNav' = [kind |-> kind, searchQuery |-> searchQuery,
                   selectedCategory |-> selectedCategory,
                   page |-> IF kind \in {"previous", "next"} THEN props.page ELSE 0,
                   totalPages |-> IF kind \in {"previous", "next"}
                                     THEN props.totalPages ELSE 0,
                   search |-> IF kind \in {"previous", "next"} THEN location ELSE <<>>]
    /\ findAllCall' = [called |-> FALSE]
    /\ UNCHANGED products
    /\ UNCHANGED exceptProducts

\* The user opens /products with a query string of their own.
Visit(query) == Navigate("visit", query, EmptyString, EmptyString)

\* onclick={() => goToPage(page - 1)} of the previous button
ClickPrevious ==
    /\ props.rendered
    /\ ControlsShown(props.totalPages)
    /\ ~PreviousDisabled(props.page)
    /\ Navigate("previous", goToPage(location, props.page - 1), EmptyString, EmptyString)

\* onclick={() => goToPage(page + 1)} of the next button
ClickNext ==
    /\ props.rendered
    /\ ControlsShown(props.totalPages)
    /\ ~NextDisabled(props.page, props.totalPages)
    /\ Navigate("next", goToPage(location, props.page + 1), EmptyString, EmptyString)

\* onchange={applyFilters} of the search input and the category select
ApplyFilters(searchQuery, selectedCategory) ==
    /\ props.rendered
    /\ Navigate("filters", applyFilters(searchQuery, selectedCategory),
                searchQuery, selectedCategory)

\* repo.findAll(options) called directly, before the browser opens the page
FindAllDirect(page, limit, search, category) ==
    /\ ~props.rendered
    /\ findAllCall' = [called |-> TRUE, table |-> products, page |-> page,
                       limit |-> limit, search |-> search, category |-> category,
                       result |-> findAll(products, page, limit, search, category)]
    /\ UNCHANGED <<products, location, props, lastNav>>
    /\ UNCHANGED exceptProducts

\* Page parameters a user may type into the address bar.
PageParams == {<<>>, <<"a", "b", "c">>, <<"0">>, <<"1">>, <<"2">>, <<"3">>, <<"-", "1">>,
               <<"9">>}
\* Values of the search input and of the category select.
SearchTerms == {EmptyString, <<"e", "n">>}
CategoryTerms == {EmptyString, <<"o", "f", "f">>}
\* Query strings a user may open the list with: each parameter is there or
\* not; a search or category that is there is not empty.
Queries ==
    UNION {{query \in [names -> PageParams \cup SearchTerms \cup CategoryTerms] :
               /\ "page" \in names => query.page \in PageParams
               /\ "search" \in names => query.search \in SearchTerms \ {EmptyString}
               /\ "category" \in names => query.category \in CategoryTerms \ {EmptyString}} :
           names \in SUBSET {"page", "search", "category"}}

SpecProductsNext ==
    \/ CreateProduct
    \/ DeleteProduct
    \/ \E query \in Queries : Visit(query)
    \/ ClickPrevious
    \/ ClickNext
    \/ \E s \in SearchTerms, c \in CategoryTerms : ApplyFilters(s, c)
    \/ \E page \in {Undefined, Given(2), Given(3)}, limit \in {Undefined, Given(2)},
          search \in {[given |-> FALSE, value |-> EmptyString], Given(<<"e", "n">>)},
          category \in {[given |-> FALSE, value |-> EmptyString], Given(<<"o", "f", "f">>)} :
            FindAllDirect(page, limit, search, category)

----------------------------------------------------------------------------
(* vite.config.ts: the write-port plugin                                     *)

MaxPortsInUse == 3
\* server: { strictPort: false, port: 5173 }
VitePort == 5173
\* the ports another process may hold, and the ports Vite may end up with
BusyPorts == VitePort..(VitePort + MaxPortsInUse - 1)
Ports     == VitePort..(VitePort + MaxPortsInUse)

NoFile == [given |-> FALSE, value |-> EmptyString]
Signals == {"SIGINT", "SIGTERM"}

\* strictPort: false: the first port from server.port on that nobody holds
BoundPort(inUse) ==
    CHOOSE p \in Ports : p \notin inUse /\ \A q \in VitePort..(p - 1) : q \in inUse

\* A URL built from the configured port instead of the bound one.
PortUrl_configured(port) ==
    <<"h", "t", "t", "p", ":", "/", "/", "l", "o", "c", "a", "l", "h", "o", "s", "t", ":">>
        \o toString(VitePort)

\* const url = `http://localhost:${port}`
PortUrl(port) ==
    <<"h", "t", "t", "p", ":", "/", "/", "l", "o", "c", "a", "l", "h", "o", "s", "t", ":">>
        \o toString(port)

\* rmSync('.vite-port'): removes the file; throws ENOENT when it is missing
rmSync(file) ==
    IF file.given THEN [file |-> NoFile, threw |-> FALSE]
                  ELSE [file |-> file, threw |-> TRUE]

\* const cleanup = () => { try { rmSync('.vite-port') } catch {}; process.exit() }
cleanup(file) ==
    [file |-> rmSync(file).file, caught |-> rmSync(file).threw, exited |-> TRUE]

InitPort ==
    /\ devServer = [pc |-> "off", port |-> 0]
    /\ portsInUse = {}
    /\ portFile = NoFile
    /\ viteLog = [signal |-> "none", fileBefore |-> NoFile, listening |-> FALSE,
                  caught |-> FALSE, exited |-> FALSE]

\* `vite` starts: the config is loaded and configureServer registers the
\* listening callback and the two signal handlers.  inUse are the ports held
\* by other processes, stale a .vite-port left by a run that was killed.
ConfigureServer(inUse, stale) ==
    /\ devServer.pc = "off"
    /\ devServer' = [devServer EXCEPT !.pc = "configured"]
    /\ portsInUse' = inUse
    /\ portFile' = stale
    /\ UNCHANGED viteLog
    /\ UNCHANGED exceptPort

\* server.httpServer 'listening': address().port is the bound port, the
\* callback writes the URL to .vite-port
Listening ==
    LET port == BoundPort(portsInUse) IN
    /\ devServer.pc = "configured"
    /\ devServer' = [pc |-> "listening", port |-> port]
    /\ portFile' = Given(PortUrl(port))
    /\ UNCHANGED <<portsInUse, viteLog>>
    /\ UNCHANGED exceptPort

\* process.on('SIGINT', cleanup) / process.on('SIGTERM', cleanup)
Signal(signal) ==
    LET done == cleanup(portFile) IN
    /\ devServer.pc \in {"configured", "listening"}
    /\ portFile' = done.file
    /\ devServer' = [devServer EXCEPT !.pc = IF done.exited THEN "exited" ELSE @]
    /\ viteLog' = [signal |-> signal, fileBefore |-> portFile,
                   listening |-> devServer.pc = "listening",
                   caught |-> done.caught, exited |-> done.exited]
    /\ UNCHANGED portsInUse
    /\ UNCHANGED exceptPort

SpecPortNext ==
    \/ \E inUse \in SUBSET BusyPorts, stale \in {NoFile} \cup {Given(PortUrl(p)) : p \in Ports} :
          ConfigureServer(inUse, stale)
    \/ Listening
    \/ \E signal \in Signals : Signal(signal)

----------------------------------------------------------------------------
(* docs/.vitepress/config.ts: themeConfig.nav and themeConfig.sidebar        *)

\* A path is the sequence of its segments: '/guide/' is <<"guide", "">>,
\* '/guide/installation' is <<"guide", "installation">>, '/' is <<"">>.
HomePage == <<"">>

\* themeConfig.nav: the links of the top bar
Nav == {<<"guide", "">>, <<"reference", "">>, <<"examples", "">>}

\* themeConfig.sidebar: per key the groups, each the links of its items
Sidebar ==
    [key \in {<<"guide", "">>, <<"reference", "">>, <<"examples", "">>} |->
        IF key = <<"guide", "">> THEN
            << << <<"guide", "">>, <<"guide", "installation">>, <<"guide", "quick-start">> >>,
               << <<"guide", "workflow">>, <<"guide", "agents">> >>,
               << <<"guide", "vertical-slicing">>, <<"guide", "structure">> >>,
               << <<"guide", "creating-features">>, <<"examples", "crud">> >>,
               << <<"guide", "routing">>, <<"guide", "database">>, <<"guide", "storage">>,
                  <<"guide", "authentication">>, <<"guide", "google-auth">>,
                  <<"guide", "forms">>, <<"guide", "testing">> >>,
               << <<"guide", "production">>, <<"guide", "docker">> >> >>
        ELSE IF key = <<"reference", "">> THEN
            << << <<"reference", "cli">>, <<"reference", "config">>,
                  <<"reference", "types">>, <<"reference", "branding">> >> >>
        ELSE
            << << <<"examples", "">>, <<"examples", "crud">>, <<"examples", "auth">>,
                  <<"examples", "file-upload">>, <<"examples", "realtime">> >> >>]

\* the links of all items of the sidebar of a key
SidebarItems(key) ==
    UNION {{Sidebar[key][g][i] : i \in 1..Len(Sidebar[key][g])} : g \in 1..Len(Sidebar[key])}

\* path.startsWith(key): the key's last segment is empty, so the segments
\* before it must be those of the path
Under(path, key) ==
    /\ Len(path) >= Len(key)
    /\ \A i \in 1..(Len(key) - 1) : path[i] = key[i]

NoSidebar == <<>>

\* The sidebar VitePress shows on a page: that of the key the path starts with.
SidebarFor(path) ==
    IF \E key \in DOMAIN Sidebar : Under(path, key)
       THEN CHOOSE key \in DOMAIN Sidebar : Under(path, key)
       ELSE NoSidebar

InitSite ==
    /\ sitePage = HomePage
    /\ lastClick = [kind |-> "none", from |-> HomePage, sidebar |-> NoSidebar]

\* The reader clicks a link of the top bar, which every page shows.
ClickNav(link) ==
    /\ link \in Nav
    /\ sitePage' = link
    /\ lastClick' = [kind |-> "nav", from |-> sitePage, sidebar |-> SidebarFor(sitePage)]
    /\ UNCHANGED exceptSite

\* The reader clicks an item of the sidebar shown on the current page.
ClickSidebar(link) ==
    /\ SidebarFor(sitePage) # NoSidebar
    /\ link \in SidebarItems(SidebarFor(sitePage))
    /\ sitePage' = link
    /\ lastClick' = [kind |-> "sidebar", from |-> sitePage,
                     sidebar |-> SidebarFor(sitePage)]
    /\ UNCHANGED exceptSite

SpecSiteNext ==
    \/ \E link \in Nav : ClickNav(link)
    \/ \E link \in UNION {SidebarItems(key) : key \in DOMAIN Sidebar} : ClickSidebar(link)

----------------------------------------------------------------------------
\* The parts of the guides beyond storage, uploads and the feature APIs.
InitGuides == InitPresign /\ InitBackup /\ InitProducts /\ InitPort /\ InitSite

Init == InitDeploy /\ InitWorkflow /\ InitStorageIdle /\ InitUpload /\ InitApiIdle /\ InitGuides
InitStorageSpec == InitDeploy /\ InitWorkflow /\ InitStorage /\ InitUpload /\ InitApiIdle /\ InitGuides
InitUploadSpec  == InitDeploy /\ InitWorkflow /\ InitStorageDocumented /\ InitUpload /\ InitApiIdle /\ InitGuides
InitTasksSpec   == InitDeploy /\ InitWorkflow /\ InitStorageIdle /\ InitUpload /\ InitTasks /\ InitGuides
InitApiSpec     == InitDeploy /\ InitWorkflow /\ InitStorageIdle /\ InitUpload /\ InitApi /\ InitGuides

SpecDeploy   == Init /\ [][SpecDeployNext]_vars
SpecWorkflow == Init /\ [][SpecWorkflowNext]_vars
SpecStorage  == InitStorageSpec /\ [][SpecStorageNext]_vars
SpecUpload   == InitUploadSpec /\ [][SpecUploadNext]_vars
SpecApi      == InitApiSpec /\ [][SpecApiNext]_vars
SpecPresign  == InitUploadSpec /\ [][SpecPresignNext]_vars
SpecBackup   == Init /\ [][SpecBackupNext]_vars
SpecProducts == Init /\ [][SpecProductsNext]_vars
SpecTasks    == InitTasksSpec /\ [][SpecTasksNext]_vars
SpecPort     == Init /\ [][SpecPortNext]_vars
SpecSite     == Init /\ [][SpecSiteNext]_vars

----------------------------------------------------------------------------
(* Properties                                                               *)

\* C1: wrangler is started only after bun run build has returned with status
\* 0, and the build and the deploy never run at the same time.
C1_DeployOnlyAfterSuccessfulBuild ==
    /\ deployState # "notrun" => (buildState = "done" /\ buildExit = 0)
    /\ ~(buildState = "running" /\ deployState = "running")

\* wrangler is running (after a build that returned 0).
C1_Witness == deployState = "running" /\ buildState = "done"

\* C2: after a failed build wrangler is never run and "Deploy complete!" is
\* never printed; after a failed wrangler run "Deploy complete!" is never
\* printed.
C2_AbortsOnFirstFailure ==
    /\ (buildExit # NoExit /\ buildExit # 0) =>
          (deployState = "notrun" /\ MsgComplete \notin printed)
    /\ (deployExit # NoExit /\ deployExit # 0) => MsgComplete \notin printed

\* The script has ended because the build failed.
C2_Witness == pc = "exited" /\ buildExit # NoExit /\ buildExit # 0

\* C3: the script's exit status is non-zero exactly when the build or wrangler
\* returned non-zero, it then equals that status, and it is 0 when both
\* returned 0.
C3_ExitCodePropagates ==
    pc = "exited" =>
        /\ (scriptExit # 0) <=> (buildExit > 0 \/ deployExit > 0)
        /\ buildExit > 0 => scriptExit = buildExit
        /\ deployExit > 0 => scriptExit = deployExit
        /\ (buildExit = 0 /\ deployExit = 0) => scriptExit = 0

\* The script has ended because wrangler failed with a status other than 1.
C3_Witness == pc = "exited" /\ buildExit = 0 /\ deployExit > 1

\* C4: no agent after Product is at work or in review unless the review point
\* of the agent before it was approved, and DEPLOYED is reached only with all
\* four approvals.
C4_GatedPipeline ==
    /\ \A agent \in Agents \ {"product"} :
          (wfAgent = agent /\ wfPhase # "idle") =>
              ReviewPoint(PrevAgent(agent)) \in wfApprovals
    /\ wfDeployed => wfApprovals = ReviewPoints

\* C5: createStorage() returns the S3 provider exactly when STORAGE_DRIVER is
\* "s3", and the local provider for every other value, unset and empty
\* included.
C5_DriverSelectsProvider ==
    storage # "none" =>
        /\ (storage = "S3Storage") <=> (STORAGE_DRIVER = "s3")
        /\ (STORAGE_DRIVER # "s3") => storage = "LocalStorage"

\* createStorage() has answered for a driver that is neither local nor s3.
C5_Witness == storage = "LocalStorage" /\ STORAGE_DRIVER = "gcs"

\* C6: every upload, delete and exists call has the same outcome on
\* LocalStorage and on S3Storage, and leaves the same objects in both.
C6_SameObservableResults ==
    /\ storageCall.outcome["LocalStorage"] = storageCall.outcome["S3Storage"]
    /\ files["LocalStorage"] = files["S3Storage"]

\* C7: a handle call with file.size > maxSize returns success = false with the
\* size error and in that call nothing is processed, uploaded or inserted; a
\* call with file.size = maxSize is not answered with the size error.
C7_RejectsTooLarge ==
    /\ uploadCall.size > uploadCall.maxSize =>
          /\ ~uploadCall.result.success
          /\ uploadCall.result.error = "File too large"
          /\ uploadCall.steps = <<>>
          /\ uploadCall.rowsAdded = 0
          /\ uploadCall.objectsAdded = 0
    /\ (uploadCall.called /\ uploadCall.size = uploadCall.maxSize) =>
          uploadCall.result.error # "File too large"

\* handle has rejected a file one byte above the default limit.
C7_Witness ==
    /\ uploadCall.called
    /\ uploadCall.maxSize = DefaultMaxSize
    /\ uploadCall.size = DefaultMaxSize + 1
    /\ uploadCall.result.error = "File too large"

C10_ServiceValidates ==
    (serviceCall.outcome # "none" /\ ~serviceCall.valid) =>
        (serviceCall.outcome = "rejected" /\ ~serviceCall.inserted)

\* C11: GET /presign answers with a presigned URL only for a provider that
\* supports it: with the local driver the answer is status 400 with an error
\* and neither url nor key; with the S3 driver it is a url and a freshly
\* generated key of the form uploads/<uuid>.jpg, the url being valid for 300
\* seconds from the request.
C11_PresignOnlyForS3 ==
    presignCall.called =>
        IF presignCall.driver = "s3"
           THEN /\ DOMAIN presignCall.body = {"url", "key"}
                /\ LET key == presignCall.body.key
                       url == presignCall.body.url
                   IN  /\ Len(key) = 2
                       /\ key[1] = "uploads"
                       /\ key[2].ext = "jpg"
                       /\ key[2].id = uuidCounter
                       /\ \A o \in files["S3Storage"] :
                             o.key[2].id = key[2].id => direct.put = "stored"
                       /\ url.key = key
                       /\ url.expires = presignCall.at + 300
           ELSE /\ presignCall.status = 400
                /\ "error" \in DOMAIN presignCall.body
                /\ "url" \notin DOMAIN presignCall.body
                /\ "key" \notin DOMAIN presignCall.body

\* GET /presign was answered under the S3 driver, after an earlier upload.
C11_Witness ==
    /\ presignCall.called
    /\ presignCall.driver = "s3"
    /\ presignCall.status = 200
    /\ uuidCounter = 2
    /\ files["S3Storage"] # {}

\* C12: in the presigned direct-upload flow the requests go out in order
\* (presign, PUT, save metadata) and the save-metadata request is sent only
\* for an upload that is complete: after a PUT to the presigned URL that S3
\* accepted, never for a PUT that S3 rejected.
C12_CompleteOnlyAfterUpload ==
    \A i \in 1..Len(sent) :
        sent[i].request = "POST /uploads/complete" =>
            /\ i = 3
            /\ sent[1].request = "GET /uploads/presign"
            /\ sent[2].request = "PUT url"
            /\ sent[2].status = 200
            /\ direct.put = "stored"

\* C13: a backup run performs WAL checkpoint, copy, conversion to a single
\* file, the optional S3 upload and cleanup in that order, and after the
\* cleanup step of every run (automatic or manual) the number of local backup
\* files is at most BACKUP_RETENTION_COUNT (10 when it is not set), the files
\* kept being the most recent ones.
C13_BackupRetention ==
    /\ \A r \in Triggers :
          \E all \in {<<"checkpoint", "copy", "convert", "s3", "cleanup">>,
                      <<"checkpoint", "copy", "convert", "cleanup">>} :
             /\ Len(backupRuns[r].steps) <= Len(all)
             /\ backupRuns[r].steps = SubSeq(all, 1, Len(backupRuns[r].steps))
    /\ lastCleanup.done =>
          LET limit == IF lastCleanup.retention.given
                          THEN lastCleanup.retention.value ELSE 10
          IN  /\ Cardinality(lastCleanup.after) <= limit
              /\ lastCleanup.after \subseteq lastCleanup.before
              /\ \A kept \in lastCleanup.after :
                    \A deleted \in lastCleanup.before \ lastCleanup.after :
                       kept > deleted

\* A cleanup step under the default retention has deleted a backup: eleven
\* files were there before it, ten after it.
C13_Witness ==
    /\ lastCleanup.done
    /\ ~lastCleanup.retention.given
    /\ Cardinality(lastCleanup.before) = 11
    /\ Cardinality(lastCleanup.after) = 10
    /\ Cardinality(backupFiles) = 10

\* C14: ProductRepository.findAll(page, limit, search, category) returns at
\* most `limit` items, taken at offset (page-1)*limit of the rows matching
\* the filters, total equal to the number of matching rows and totalPages =
\* ceil(total/limit); page defaults to 1 and limit to 10; the list route maps
\* a missing, non-numeric or zero page parameter to page 1.
C14_FindAllPagination ==
    /\ findAllCall.called =>
          LET call == findAllCall
              page == IF call.page.given THEN call.page.value ELSE 1
              limit == IF call.limit.given THEN call.limit.value ELSE 10
              Contains(name, part) ==
                  \E i \in 1..(Len(name) + 1), j \in 0..Len(name) :
                      SubSeq(name, i, j) = part
              Matches(row) ==
                  /\ (call.search.given /\ call.search.value # <<>>)
                        => Contains(row.name, call.search.value)
                  /\ (call.category.given /\ call.category.value # <<>>)
                        => row.category = call.category.value
              matching == {i \in 1..Len(call.table) : Matches(call.table[i])}
              total == Cardinality(matching)
              Rank(i) == Cardinality({j \in matching : j < i})
              r == call.result
          IN  /\ r.page = page
              /\ r.limit = limit
              /\ Len(r.items) <= limit
              /\ r.total = total
              /\ r.totalPages * limit >= total
              /\ (r.totalPages - 1) * limit < total
              /\ \A i \in matching :
                    (Rank(i) >= (page - 1) * limit /\ Rank(i) < page * limit)
                       => /\ Rank(i) - (page - 1) * limit + 1 <= Len(r.items)
                          /\ r.items[Rank(i) - (page - 1) * limit + 1] = call.table[i]
              /\ Len(r.items) =
                    Cardinality({i \in matching : Rank(i) >= (page - 1) * limit
                                                  /\ Rank(i) < page * limit})
    /\ props.rendered =>
          /\ props.limit = 10
          /\ ("page" \notin DOMAIN location
              \/ location["page"] \in {<<>>, <<"a", "b", "c">>, <<"0">>})
                => props.page = 1
          /\ ("page" \in DOMAIN location /\ location["page"] = <<"3">>) => props.page = 3

\* findAll was called for the last page of several: page 3 with limit 2 of
\* five matching rows.
C14_Witness ==
    /\ findAllCall.called
    /\ findAllCall.page.given
    /\ findAllCall.page.value = 3
    /\ findAllCall.limit.given
    /\ findAllCall.result.total = 5
    /\ Len(findAllCall.result.items) = 1

\* C15: the pagination controls of the products Index page keep the page in
\* range: from a page with 1 <= page <= totalPages a previous or next click
\* requests a page within [1, totalPages]; previous is never clicked at page
\* 1 and next never at page totalPages (they are disabled there), and no
\* click happens when totalPages <= 1 (the controls are not shown).
C15_PageStaysInRange ==
    lastNav.kind \in {"previous", "next"} =>
        /\ lastNav.totalPages > 1
        /\ lastNav.kind = "previous" => lastNav.page # 1
        /\ lastNav.kind = "next" => lastNav.page # lastNav.totalPages
        /\ (1 <= lastNav.page /\ lastNav.page <= lastNav.totalPages)
              => (1 <= props.page /\ props.page <= lastNav.totalPages)

\* Next was clicked on page 2 of 3 and page 3 is shown.
C15_Witness ==
    /\ lastNav.kind = "next"
    /\ lastNav.page = 2
    /\ lastNav.totalPages = 3
    /\ props.page = 3

\* C16: goToPage changes only the page parameter: the search and category
\* parameters of the current URL are carried over unchanged; applyFilters
\* sets search and category from the form and carries no page parameter, so
\* the list returns to page 1.
C16_FiltersCarriedOver ==
    /\ lastNav.kind \in {"previous", "next"} =>
          /\ DOMAIN location = DOMAIN lastNav.search \cup {"page"}
          /\ \A name \in DOMAIN lastNav.search \ {"page"} :
                location[name] = lastNav.search[name]
          /\ lastNav.page >= 1 =>
                props.page = lastNav.page + (IF lastNav.kind = "next" THEN 1 ELSE -1)
    /\ lastNav.kind = "filters" =>
          /\ "page" \notin DOMAIN location
          /\ props.page = 1
          /\ props.filters.search = lastNav.searchQuery
          /\ props.filters.category = lastNav.selectedCategory
          /\ \A name \in DOMAIN location :
                location[name] = IF name = "search" THEN lastNav.searchQuery
                                 ELSE lastNav.selectedCategory

\* Next was clicked on a list filtered by search and category, and page 2 of
\* that list is shown.
C16_Witness ==
    /\ lastNav.kind = "next"
    /\ "search" \in DOMAIN location
    /\ "category" \in DOMAIN location
    /\ props.page = 2
    /\ props.filters.search = <<"e", "n">>
    /\ props.items # <<>>

\* C17: UploadService.handle never throws: an exception raised while
\* processing the image, reading the file, uploading to storage or inserting
\* the assets row is caught and returned as {success: false, error: message}.
C17_HandleNeverThrows ==
    uploadCall.called =>
        LET process == uploadCall.mimeType[1] = "image" /\ uploadCall.shouldProcess
            raised ==
                /\ uploadCall.size <= uploadCall.maxSize
                /\ \/ uploadCall.fault \in {"upload", "insert"}
                   \/ uploadCall.fault = (IF process THEN "processImage" ELSE "arrayBuffer")
        IN  /\ ~uploadCall.result.thrown
            /\ raised => /\ uploadCall.result.success = FALSE
                         /\ uploadCall.result.error = uploadCall.fault
                         /\ uploadCall.result.asset = NoAsset

\* The insert of the assets row threw after the object had been stored, and
\* handle returned the failure.
C17_Witness ==
    /\ uploadCall.called
    /\ uploadCall.fault = "insert"
    /\ uploadCall.steps = <<"processImage", "upload">>
    /\ uploadCall.objectsAdded = 1
    /\ uploadCall.result.success = FALSE

\* C18: in UploadService.handle the assets row is inserted only after the
\* storage upload has completed, and whenever handle returns success=true
\* both exist: the object is in storage under the generated key and the
\* returned row has path equal to that key, url equal to getPublicUrl(key),
\* filename equal to the last path segment of the key, and size equal to the
\* number of bytes stored.
C18_RowAfterUpload ==
    uploadCall.called =>
        /\ uploadCall.rowsAdded > 0 =>
              /\ Len(uploadCall.steps) = 3
              /\ uploadCall.steps[2] = "upload"
              /\ uploadCall.steps[3] = "insert"
              /\ uploadCall.result.success
        /\ uploadCall.result.success =>
              LET asset == uploadCall.result.asset
              IN  /\ uploadCall.rowsAdded = 1
                  /\ assets # <<>>
                  /\ assets[Len(assets)] = asset
                  /\ \E o \in files[storage] :
                        /\ o.key = asset.path
                        /\ o.size = asset.size
                  /\ asset.path[1] = "uploads"
                  /\ asset.url = getPublicUrl(storage, asset.path)
                  /\ asset.filename = asset.path[3]

\* handle stored a processed image and returned its row: the size of the row
\* is the length of the processed buffer, not file.size.
C18_Witness ==
    /\ uploadCall.called
    /\ uploadCall.result.success
    /\ uploadCall.steps = <<"processImage", "upload", "insert">>
    /\ uploadCall.result.asset.size # uploadCall.size
    /\ \E o \in files[storage] : o.key = uploadCall.result.asset.path

\* C19: error paths of the quick-start tasks routes: when taskService.create
\* throws, POST /tasks renders tasks/Create with errors.message and does not
\* redirect; GET /tasks/:id/edit for an id with no task renders errors/404
\* and never renders tasks/Edit with an undefined task.
C19_TaskErrorPaths ==
    (apiCall.feature = "tasks" /\ apiCall.handlerRan) =>
        /\ (apiCall.method = "POST" /\ ~apiCall.completed) =>
              /\ apiCall.response.kind = "render"
              /\ apiCall.response.target = <<"tasks", "Create">>
              /\ apiCall.response.errors.message = "SQLITE_ERROR"
        /\ (apiCall.method = "GET" /\ apiCall.completed) =>
              /\ (\A i \in 1..Len(rows) : rows[i].id # apiCall.id)
                    => apiCall.response.target = <<"errors", "404">>
              /\ apiCall.response.target = <<"tasks", "Edit">>
                    => /\ apiCall.response.task.given
                       /\ apiCall.response.task.value.id = apiCall.id

\* The edit form was asked for a task id that no row has, while other tasks
\* exist, and errors/404 was rendered.
C19_Witness ==
    /\ apiCall.feature = "tasks"
    /\ apiCall.method = "GET"
    /\ apiCall.completed
    /\ rows # <<>>
    /\ \A i \in 1..Len(rows) : rows[i].id # apiCall.id
    /\ apiCall.response.target = <<"errors", "404">>

\* C20: the write-port plugin keeps .vite-port in step with the dev server:
\* once the HTTP server is listening the file holds http://localhost:<bound
\* port>; after SIGINT or SIGTERM the file does not exist and the process has
\* exited, whether or not the server was listening, a missing file included.
C20_PortFileInStep ==
    /\ devServer.pc = "listening" =>
          /\ devServer.port = BoundPort(portsInUse)
          /\ portFile = Given(<<"h", "t", "t", "p", ":", "/", "/", "l", "o", "c", "a",
                                "l", "h", "o", "s", "t", ":">> \o toString(devServer.port))
    /\ viteLog.signal \in Signals =>
          /\ devServer.pc = "exited"
          /\ viteLog.exited
          /\ ~portFile.given
    /\ devServer.pc = "exited" => viteLog.signal \in Signals

\* A signal arrived before the server was listening and with no .vite-port
\* on disk: rmSync threw, cleanup swallowed it and the process exited.
C20_Witness ==
    /\ devServer.pc = "exited"
    /\ ~viteLog.listening
    /\ ~viteLog.fileBefore.given
    /\ viteLog.caught
    /\ ~portFile.given

\* C22: PUT /tasks/:id redirects to /tasks only when a task row was updated:
\* for an id that matches no task the response is an error page, as GET
\* /tasks/:id/edit gives errors/404, not the success redirect.
C22_PutRedirectsOnlyAfterUpdate ==
    (apiCall.feature = "tasks" /\ apiCall.method = "PUT" /\ apiCall.completed) =>
        IF \E i \in 1..Len(rows) : rows[i].id = apiCall.id
           THEN apiCall.response.kind = "redirect"
           ELSE /\ apiCall.response.kind = "render"
                /\ apiCall.response.target = <<"errors", "404">>

\* C21: site navigation is closed: each top-level nav link is a key of the
\* sidebar map and is itself listed as an item of that sidebar, every item of
\* a sidebar links to a path under that sidebar's key, and so following a
\* sidebar link never leaves the section the reader is in.
C21_NavigationClosed ==
    /\ lastClick.kind = "nav" =>
          /\ sitePage \in DOMAIN Sidebar
          /\ sitePage \in SidebarItems(sitePage)
    /\ SidebarFor(sitePage) # NoSidebar =>
          \A link \in SidebarItems(SidebarFor(sitePage)) : Under(link, SidebarFor(sitePage))
    /\ lastClick.kind = "sidebar" => SidebarFor(sitePage) = lastClick.sidebar

====
